---- MODULE Spec2Model ----
(***************************************************************************)
(* The command introspection engine of .github/scripts/cli_scraper.py:     *)
(* get_command_structure walks a CLI's `--help` output recursively and     *)
(* builds a tree of {description, flags, subcommands} nodes, which         *)
(* generate_markdown renders with one anchor per command path.             *)
(*                                                                         *)
(* A text is a sequence of one-character strings, so that the regular      *)
(* expressions of the script are modelled by what they match, character    *)
(* by character.                                                           *)
(***************************************************************************)
EXTENDS Integers, Sequences, FiniteSets, TLC

\* ------------------------------------------------------------------------
\* Characters
\* ------------------------------------------------------------------------

\* The one character U+0060. The lexer accepts a backquote inside a string
\* only together with a closing quote, so this atom stands for the character.
Backtick == "`'"

\* The printable ASCII characters in code-point order (32 .. 126).
Printable ==
  << " ", "!", "\"", "#", "$", "%", "&", "'", "(", ")", "*", "+", ",", "-", ".", "/", "0",
     "1", "2", "3", "4", "5", "6", "7", "8", "9", ":", ";", "<", "=", ">", "?", "@", "A", "B",
     "C", "D", "E", "F", "G", "H", "I", "J", "K", "L", "M", "N", "O", "P", "Q", "R", "S", "T",
     "U", "V", "W", "X", "Y", "Z", "[", "\\", "]", "^", "_", Backtick, "a", "b", "c", "d", "e",
     "f", "g", "h", "i", "j", "k", "l", "m", "n", "o", "p", "q", "r", "s", "t", "u", "v", "w",
     "x", "y", "z", "{", "|", "}", "~" >>

Chars == {Printable[i] : i \in DOMAIN Printable} \cup {"\n", "\t"}

\* The code point of a character: Python compares strings by code point.
OrdMap ==
  [c \in Chars |->
     IF c = "\n" THEN 10
     ELSE IF c = "\t" THEN 9
     ELSE 31 + (CHOOSE i \in DOMAIN Printable : Printable[i] = c)]

Ord(c) == OrdMap[c]

\* \s of the regular expressions, and the characters str.strip() removes.
IsSpace(c) == c \in {" ", "\n", "\t"}

\* \w of the regular expressions.
IsWord(c) ==
  \/ Ord(c) \in 48..57
  \/ Ord(c) \in 65..90
  \/ Ord(c) \in 97..122
  \/ c = "_"

\* str.lower() on one character.
lower(c) == IF Ord(c) \in 65..90 THEN Printable[Ord(c) + 32 - 31] ELSE c

Min(S) == CHOOSE x \in S : \A y \in S : x <= y

\* ------------------------------------------------------------------------
\* String helpers
\* ------------------------------------------------------------------------

\* The first position >= i of s that holds no whitespace (Len(s) + 1 if none):
\* where a greedy \s* or \s+ that starts at i ends.
SkipSpace(s, i) ==
  Min({j \in i..(Len(s) + 1) : j = Len(s) + 1 \/ ~IsSpace(s[j])})

\* Where a greedy [^\s]+ that starts at i ends.
SkipNonSpace(s, i) ==
  Min({j \in i..(Len(s) + 1) : j = Len(s) + 1 \/ IsSpace(s[j])})

\* Where a greedy .* that starts at i ends: the end of the line.
EndOfLine(s, i) ==
  Min({j \in i..(Len(s) + 1) : j = Len(s) + 1 \/ s[j] = "\n"})

\* (?m)^ at position i.
LineStart(s, i) == i = 1 \/ s[i - 1] = "\n"

\* The literal p matches s at position i.
HasPrefixAt(s, i, p) ==
  /\ i + Len(p) - 1 <= Len(s)
  /\ SubSeq(s, i, i + Len(p) - 1) = p

\* str.strip()
strip(s) ==
  LET a == SkipSpace(s, 1)
      keep == {j \in 1..Len(s) : ~IsSpace(s[j])}
  IN IF keep = {} THEN <<>>
     ELSE SubSeq(s, a, CHOOSE j \in keep : \A k \in keep : k <= j)

\* sep.join(parts)
RECURSIVE Join(_, _)
Join(parts, sep) ==
  IF parts = <<>> THEN <<>>
  ELSE IF Len(parts) = 1 THEN parts[1]
  ELSE parts[1] \o sep \o Join(Tail(parts), sep)

\* a < b on Python strings: lexicographic by code point.
StrLess(a, b) ==
  LET differ == {i \in 1..Len(a) : i > Len(b) \/ a[i] # b[i]}
  IN IF differ = {} THEN Len(a) < Len(b)
     ELSE Min(differ) <= Len(b) /\ Ord(a[Min(differ)]) < Ord(b[Min(differ)])

\* p < q on Python tuples (name, description).
PairLess(p, q) ==
  \/ StrLess(p[1], q[1])
  \/ p[1] = q[1] /\ StrLess(p[2], q[2])

\* sorted(S) for a set S of (name, description) tuples.
RECURSIVE sorted(_)
sorted(S) ==
  IF S = {} THEN <<>>
  ELSE LET m == CHOOSE p \in S : \A q \in S \ {p} : PairLess(p, q)
       IN <<m>> \o sorted(S \ {m})

\* ------------------------------------------------------------------------
\* replace_angle_brackets and generate_anchor_id
\* ------------------------------------------------------------------------

\* re.sub(r'<(.*?)>', <backquote, group 1, backquote>, text), scanning from
\* position i: a "<" is replaced together with the nearest ">" after it on
\* the same line (the dot matches no newline), and the scan goes on after
\* that ">". AngleClose: the positions where a match that opens at o may end.
AngleClose(text, o) ==
  {j \in (o + 1)..Len(text) :
     /\ text[j] = ">"
     /\ \A k \in (o + 1)..(j - 1) : text[k] # "\n"}

RECURSIVE SubAngle(_, _)
SubAngle(text, i) ==
  LET opens == {o \in i..Len(text) : text[o] = "<" /\ AngleClose(text, o) # {}}
  IN IF opens = {} THEN SubSeq(text, i, Len(text))
     ELSE LET o == Min(opens)
              j == Min(AngleClose(text, o))
          IN SubSeq(text, i, o - 1) \o <<Backtick>> \o SubSeq(text, o + 1, j - 1)
               \o <<Backtick>> \o SubAngle(text, j + 1)

replace_angle_brackets(text) == SubAngle(text, 1)

\* re.sub(r'[^\w\-]', '', '-'.join([cli_tool] + command_chain).lower())
generate_anchor_id(cli_tool, command_chain) ==
  LET anchor_str == Join(<<cli_tool>> \o command_chain, <<"-">>)
      lowered == [i \in DOMAIN anchor_str |-> lower(anchor_str[i])]
  IN SelectSeq(lowered, LAMBDA c : IsWord(c) \/ c = "-")

\* ------------------------------------------------------------------------
\* The extraction rules of get_command_structure
\* ------------------------------------------------------------------------

\* "\n\s*Usage:" matches at position k.
UsageAt(output, k) ==
  /\ output[k] = "\n"
  /\ HasPrefixAt(output, SkipSpace(output, k + 1), <<"U", "s", "a", "g", "e", ":">>)

\* re.search(r"(?s)^\s*(.*?)\n\s*Usage:", output), then group(1).strip():
\* the text between the leading whitespace and the first usage line. When
\* the only usage line lies inside the leading whitespace the match
\* succeeds with a blank group; without any the description stays "".
description_match(output) ==
  LET w == SkipSpace(output, 1)
      ks == {k \in w..Len(output) : UsageAt(output, k)}
  IN IF ks = {} THEN <<>> ELSE strip(SubSeq(output, w, Min(ks) - 1))

ExtractDescription(output) == replace_angle_brackets(description_match(output))

\* re.search(r"(?sm)^HEADER\n(.*?)(?:\n\n|^\S|\Z)", output) for a set of
\* alternative headers (each ending in ":\n"): the block starts after the
\* first header line and ends before the first blank line, the first line
\* that starts with a non-space character, or the end of the text.
BlockAfter(output, headers) ==
  LET starts == {i \in 1..Len(output) :
                   LineStart(output, i) /\ \E h \in headers : HasPrefixAt(output, i, h)}
  IN IF starts = {} THEN [matched |-> FALSE, group |-> <<>>]
     ELSE LET p == Min(starts)
              h == CHOOSE x \in headers : HasPrefixAt(output, p, x)
              s == p + Len(h)
              ends == {e \in s..(Len(output) + 1) :
                         \/ e = Len(output) + 1
                         \/ HasPrefixAt(output, e, <<"\n", "\n">>)
                         \/ LineStart(output, e) /\ ~IsSpace(output[e])}
          IN [matched |-> TRUE, group |-> SubSeq(output, s, Min(ends) - 1)]

FlagsHeader == {<<"F", "l", "a", "g", "s", ":", "\n">>}

GlobalFlagsHeader ==
  {<<"G", "l", "o", "b", "a", "l", " ", "F", "l", "a", "g", "s", ":", "\n">>}

CommandsHeader ==
  {<<"A", "v", "a", "i", "l", "a", "b", "l", "e", " ", "C", "o", "m", "m", "a", "n", "d", "s", ":", "\n">>,
   <<"A", "v", "a", "i", "l", "a", "b", "l", "e", " ", "C", "o", "m", "m", "a", "n", "d", ":", "\n">>,
   <<"C", "o", "m", "m", "a", "n", "d", "s", ":", "\n">>,
   <<"C", "o", "m", "m", "a", "n", "d", ":", "\n">>}

\* r"^\s+([^\s]+)\s+(.*)$" (re.MULTILINE) tried at position i of t. Each \s+
\* is greedy and matches newlines too, so the whitespace after the name may
\* run into the next line.
SubcmdMatchAt(t, i) ==
  LET a == SkipSpace(t, i)
      b == SkipNonSpace(t, a)
      c == SkipSpace(t, b)
      d == EndOfLine(t, c)
  IN [matched |-> LineStart(t, i) /\ a > i /\ b > a /\ c > b,
      groups |-> <<SubSeq(t, a, b - 1), SubSeq(t, c, d - 1)>>,
      end |-> d]

\* A flag name -{1,2}[^\s,]+ starts at position a: a dash and at least one
\* more character that is neither whitespace nor a comma.
FlagNameAt(t, a) ==
  /\ a + 1 <= Len(t)
  /\ t[a] = "-"
  /\ ~IsSpace(t[a + 1]) /\ t[a + 1] # ","

\* Where the greedy [^\s,]+ of a flag name that starts at a ends.
FlagNameEnd(t, a) ==
  Min({j \in a..(Len(t) + 1) : j = Len(t) + 1 \/ IsSpace(t[j]) \/ t[j] = ","})

\* (?:,\s*-{1,2}[^\s,]+)* from position b: the end of the last alias.
RECURSIVE AliasesEnd(_, _)
AliasesEnd(t, b) ==
  IF b <= Len(t) /\ t[b] = "," /\ FlagNameAt(t, SkipSpace(t, b + 1))
  THEN AliasesEnd(t, FlagNameEnd(t, SkipSpace(t, b + 1)))
  ELSE b

\* r"^\s+(-{1,2}[^\s,]+(?:,\s*-{1,2}[^\s,]+)*)\s+(.*)$" (re.MULTILINE)
\* tried at position i of t.
FlagMatchAt(t, i) ==
  LET a == SkipSpace(t, i)
      ok == LineStart(t, i) /\ a > i /\ FlagNameAt(t, a)
      e == IF ok THEN AliasesEnd(t, FlagNameEnd(t, a)) ELSE a
      c == SkipSpace(t, e)
      d == EndOfLine(t, c)
  IN [matched |-> ok /\ c > e,
      groups |-> <<SubSeq(t, a, e - 1), SubSeq(t, c, d - 1)>>,
      end |-> d]

\* re.findall(pattern, t, re.MULTILINE) from position i: the matches from
\* left to right, each search starting where the last match ended.
RECURSIVE FindSubcommands(_, _)
FindSubcommands(t, i) ==
  LET hits == {k \in i..Len(t) : SubcmdMatchAt(t, k).matched}
  IN IF hits = {} THEN <<>>
     ELSE LET m == SubcmdMatchAt(t, Min(hits))
          IN <<m.groups>> \o FindSubcommands(t, m.end)

RECURSIVE FindFlags(_, _)
FindFlags(t, i) ==
  LET hits == {k \in i..Len(t) : FlagMatchAt(t, k).matched}
  IN IF hits = {} THEN <<>>
     ELSE LET m == FlagMatchAt(t, Min(hits))
          IN <<m.groups>> \o FindFlags(t, m.end)

\* The (names, description) tuples of one block, when the block is there.
BlockFlags(output, header) ==
  LET m == BlockAfter(output, header)
  IN IF m.matched THEN FindFlags(m.group, 1) ELSE <<>>

\* Lines 85-114: the flags of the local block, then those of the global one.
ExtractFlags(output) ==
  LET flags == BlockFlags(output, FlagsHeader) \o BlockFlags(output, GlobalFlagsHeader)
  IN [i \in DOMAIN flags |->
        [flag |-> strip(flags[i][1]),
         description |-> replace_angle_brackets(strip(flags[i][2]))]]

\* Lines 117-124: the (name, description) tuples of the listing.
subcommand_lines(output) ==
  LET m == BlockAfter(output, CommandsHeader)
  IN IF m.matched THEN FindSubcommands(m.group, 1) ELSE <<>>

\* Line 126: sorted(set(subcommand_lines)).
SortedSubcommands(output) ==
  LET lines == subcommand_lines(output)
  IN sorted({lines[i] : i \in DOMAIN lines})

\* ------------------------------------------------------------------------
\* The help texts the external tool answers with
\* ------------------------------------------------------------------------

\* The tool whose help is scraped (main's cli_tool, "Adjust if needed").
\*   'sample'
cli_tool ==
  << "s", "a", "m", "p", "l", "e" >>

\* The two subcommand names the help texts list.
\*   'create'
create ==
  << "c", "r", "e", "a", "t", "e" >>

\* A sibling that differs from "create" in case only.
\*   'Create'
Create ==
  << "C", "r", "e", "a", "t", "e" >>

\* The root help text of the end-to-end scenario: up to its listing,
\*   'A sample CLI.\nUsage: sample [command]\nAvailable Commands:\n'
SamplePre ==
  << "A", " ", "s", "a", "m", "p", "l", "e", " ", "C", "L", "I", ".", "\n", "U", "s", "a", "g",
     "e", ":", " ", "s", "a", "m", "p", "l", "e", " ", "[", "c", "o", "m", "m", "a", "n", "d",
     "]", "\n", "A", "v", "a", "i", "l", "a", "b", "l", "e", " ", "C", "o", "m", "m", "a", "n",
     "d", "s", ":", "\n" >>

\* its one listing line,
\*   '  create   Create a thing\n'
SampleLine ==
  << " ", " ", "c", "r", "e", "a", "t", "e", " ", " ", " ", "C", "r", "e", "a", "t", "e", " ",
     "a", " ", "t", "h", "i", "n", "g", "\n" >>

\* and its flags block.
\*   'Flags:\n  -h, --help   bool   show help\n'
SamplePost ==
  << "F", "l", "a", "g", "s", ":", "\n", " ", " ", "-", "h", ",", " ", "-", "-", "h", "e", "l",
     "p", " ", " ", " ", "b", "o", "o", "l", " ", " ", " ", "s", "h", "o", "w", " ", "h", "e",
     "l", "p", "\n" >>

\* A help text that is a usage line only.
\*   'Usage: sample create\n'
UsageOnly ==
  << "U", "s", "a", "g", "e", ":", " ", "s", "a", "m", "p", "l", "e", " ", "c", "r", "e", "a",
     "t", "e", "\n" >>

\* A help text whose listing names "create" twice, with two descriptions,
\* and a sibling "Create".
\*   'Manage <name>.\nUsage: sample create\nCommands:\n'
ManagePre ==
  << "M", "a", "n", "a", "g", "e", " ", "<", "n", "a", "m", "e", ">", ".", "\n", "U", "s", "a",
     "g", "e", ":", " ", "s", "a", "m", "p", "l", "e", " ", "c", "r", "e", "a", "t", "e", "\n",
     "C", "o", "m", "m", "a", "n", "d", "s", ":", "\n" >>

\*   '  create   First\n'
ManageFirst ==
  << " ", " ", "c", "r", "e", "a", "t", "e", " ", " ", " ", "F", "i", "r", "s", "t", "\n" >>

\*   '  create   Second\n'
ManageSecond ==
  << " ", " ", "c", "r", "e", "a", "t", "e", " ", " ", " ", "S", "e", "c", "o", "n", "d", "\n" >>

\*   '  Create   Other\n'
ManageOther ==
  << " ", " ", "C", "r", "e", "a", "t", "e", " ", " ", " ", "O", "t", "h", "e", "r", "\n" >>

\* A help text whose listing holds a line with a name and no description.
\*   'Usage: sample\nAvailable Commands:\n'
BarePre ==
  << "U", "s", "a", "g", "e", ":", " ", "s", "a", "m", "p", "l", "e", "\n", "A", "v", "a", "i",
     "l", "a", "b", "l", "e", " ", "C", "o", "m", "m", "a", "n", "d", "s", ":", "\n" >>

\*   '  create\n'
BareName ==
  << " ", " ", "c", "r", "e", "a", "t", "e", "\n" >>

\*   '  Create   Make\n'
BareMake ==
  << " ", " ", "C", "r", "e", "a", "t", "e", " ", " ", " ", "M", "a", "k", "e", "\n" >>

\* What a tool prints when it exits with a non-zero status.
\*   'Error: unknown command\nUsage: sample\n'
ErrText ==
  << "E", "r", "r", "o", "r", ":", " ", "u", "n", "k", "n", "o", "w", "n", " ", "c", "o", "m",
     "m", "a", "n", "d", "\n", "U", "s", "a", "g", "e", ":", " ", "s", "a", "m", "p", "l", "e",
     "\n" >>

\* An output of whitespace only.
\*   ' \n'
Blank ==
  << " ", "\n" >>

\* ------------------------------------------------------------------------
\* The process prober: subprocess.run(current_command + ["--help"], ...)
\* ------------------------------------------------------------------------

\* What one run of the tool can do. kind "timeout" raises TimeoutExpired,
\* "error" raises another exception (the executable cannot be started), and
\* "exit" ends with an exit status and the captured text pre + lines + post,
\* where lines are the lines of the subcommand listing.
Outcomes ==
  << [kind |-> "timeout", status |-> 0, pre |-> <<>>, lines |-> <<>>, post |-> <<>>],
     [kind |-> "error", status |-> 0, pre |-> <<>>, lines |-> <<>>, post |-> <<>>],
     [kind |-> "exit", status |-> 0, pre |-> <<>>, lines |-> <<>>, post |-> <<>>],
     [kind |-> "exit", status |-> 0, pre |-> Blank, lines |-> <<>>, post |-> <<>>],
     [kind |-> "exit", status |-> 1, pre |-> ErrText, lines |-> <<>>, post |-> <<>>],
     [kind |-> "exit", status |-> 0, pre |-> UsageOnly, lines |-> <<>>, post |-> <<>>],
     [kind |-> "exit", status |-> 0, pre |-> SamplePre, lines |-> <<SampleLine>>,
      post |-> SamplePost],
     [kind |-> "exit", status |-> 1, pre |-> ManagePre,
      lines |-> <<ManageFirst, ManageSecond, ManageOther>>, post |-> <<>>],
     [kind |-> "exit", status |-> 0, pre |-> BarePre, lines |-> <<BareName, BareMake>>,
      post |-> <<>>] >>

\* The commands the tool answers to, by their last token.
Commands == {cli_tool, create, Create}

\* The tools considered: one outcome per command.
Fixtures == [Commands -> DOMAIN Outcomes]

\* The orders in which a tool may print the lines of a listing: a rank for
\* each line.
ListingLen ==
  LET lens == {Len(Outcomes[i].lines) : i \in DOMAIN Outcomes}
  IN CHOOSE n \in lens : \A m \in lens : m <= n

LineOrders ==
  {f \in [1..ListingLen -> 1..ListingLen] :
     \A i, j \in 1..ListingLen : f[i] = f[j] => i = j}

AsPrinted == [i \in 1..ListingLen |-> i]

\* The lines in the order their ranks give them.
Reorder(lines, order) ==
  [j \in DOMAIN lines |->
     lines[CHOOSE i \in DOMAIN lines :
             Cardinality({k \in DOMAIN lines : order[k] < order[i]}) = j - 1]]

\* The text an outcome captures into stdout.
HelpText(o, order) == o.pre \o Join(Reorder(o.lines, order), <<>>) \o o.post

VARIABLES
  phase,               \* where main is: "start", "run", "done"
  max_depth,           \* the max_depth main passes down
  fixture,             \* the tool: which outcome each command has
  rank,                \* the order in which the tool prints listing lines
  stack,               \* the activation records of get_command_structure
  processed_commands,  \* the memo table of this build
  ret,                 \* the value the last finished call returned
  probed,              \* the commands --help was run for, in order
  saved,               \* whether main wrote cli_structure.json and .md
  build,               \* 1 for the first build of a tool, 2 for the second
  first,               \* what the first build returned and probed
  arg,                 \* the text given to an extraction rule applied alone
  res                  \* what the rule made of it

vars ==
  <<phase, max_depth, fixture, rank, stack, processed_commands, ret, probed, saved,
    build, first, arg, res>>

\* subprocess.run for current_command: the outcome of the last token; a
\* command the tool does not know cannot be run.
probe(current_command) ==
  LET name == current_command[Len(current_command)]
  IN IF name \in DOMAIN fixture THEN fixture[name] ELSE 2

\* ------------------------------------------------------------------------
\* get_command_structure
\* ------------------------------------------------------------------------

EmptyDict == [k \in {} |-> <<>>]

\* d[k] = v
Put(d, k, v) == [n \in DOMAIN d \cup {k} |-> IF n = k THEN v ELSE d[n]]

\* Lines 48-52.
EmptyNode == [description |-> <<>>, flags |-> <<>>, subcommands |-> EmptyDict]

\* A stub that drops the description of the listing.
StubBare(desc) == EmptyNode

\* Lines 140-144.
Stub(desc) ==
  [description |-> desc, flags |-> <<>>, subcommands |-> EmptyDict]

None == [is_none |-> TRUE, value |-> EmptyNode]

Some(node) == [is_none |-> FALSE, value |-> node]

\* One call of get_command_structure; pc is "entry" before line 37, "loop"
\* at the head of the for loop of line 126, "await" inside the recursive
\* call of line 128.
Frame(command_chain, current_depth) ==
  [command_chain |-> command_chain, current_depth |-> current_depth,
   command_structure |-> EmptyNode, todo |-> <<>>, pc |-> "entry"]

Top == stack[Len(stack)]

current_command(f) == <<cli_tool>> \o f.command_chain

\* Line 38.
command_key(command_chain) == Join(<<cli_tool>> \o command_chain, <<" ">>)

\* A recursive call that passes its own depth on.
ChildDepthSame(current_depth) == current_depth

\* Line 132.
ChildDepth(current_depth) == current_depth + 1

\* A cutoff one level too late.
DepthExceededLate(current_depth, limit) == current_depth > limit + 1

\* Line 45.
DepthExceeded(current_depth, limit) == current_depth > limit

\* A probe that also fails on a non-zero exit status.
ProbeFailedOnStatus(o, output) ==
  IF o.kind # "exit" THEN TRUE ELSE o.status # 0 \/ strip(output) = <<>>

\* Lines 68-77: the probe raised, or captured nothing but whitespace.
ProbeFailed(o, output) ==
  IF o.kind # "exit" THEN TRUE ELSE strip(output) = <<>>

\* Lines 79-126 on one captured text: the node before its subcommands are
\* walked, and the (subcmd, sub_desc) tuples to walk.
Parse(output) ==
  [command_structure |->
     [description |-> ExtractDescription(output),
      flags |-> ExtractFlags(output),
      subcommands |-> EmptyDict],
   todo |-> SortedSubcommands(output)]

\* What lines 56-126 make of each outcome under each line order.
CapturedOf ==
  [i \in DOMAIN Outcomes, order \in LineOrders |->
     [failed |-> ProbeFailed(Outcomes[i], HelpText(Outcomes[i], order)),
      parsed |-> Parse(HelpText(Outcomes[i], order))]]

\* The same function as a table: a function picked out of a set is
\* evaluated once, not at each application.
Captured == CHOOSE t \in {CapturedOf} : t = t

\* Line 127.
sub_desc_clean(sub_desc) == replace_angle_brackets(strip(sub_desc))

\* A loop that never writes the listing's description into a child.
BackfillNever(sub_structure, desc) == sub_structure

\* Lines 136-137: the listing's description for a child that has none.
Backfill(sub_structure, desc) ==
  IF sub_structure.description = <<>>
  THEN [sub_structure EXCEPT !.description = desc]
  ELSE sub_structure

\* Line 243: if cli_structure.
Truthy(r) == ~r.is_none /\ DOMAIN r.value # {}

\* return value
Return(value) ==
  /\ stack' = SubSeq(stack, 1, Len(stack) - 1)
  /\ ret' = value

Running == phase = "run" /\ stack # <<>>

\* Line 242: main calls get_command_structure(cli_tool, max_depth=max_depth).
Main ==
  /\ phase = "start"
  /\ phase' = "run"
  /\ stack' = <<Frame(<<>>, 0)>>
  /\ UNCHANGED <<max_depth, fixture, rank, processed_commands, ret, probed, saved, build, first, arg, res>>

\* Lines 41-42: the command is in the memo table.
ReturnCached ==
  /\ Running /\ Top.pc = "entry"
  /\ command_key(Top.command_chain) \in DOMAIN processed_commands
  /\ Return(Some(processed_commands[command_key(Top.command_chain)]))
  /\ UNCHANGED <<phase, max_depth, fixture, rank, processed_commands, probed, saved, build, first, arg, res>>

\* Lines 45-46: too deep.
DepthCutoff ==
  /\ Running /\ Top.pc = "entry"
  /\ command_key(Top.command_chain) \notin DOMAIN processed_commands
  /\ DepthExceeded(Top.current_depth, max_depth)
  /\ Return(None)
  /\ UNCHANGED <<phase, max_depth, fixture, rank, processed_commands, probed, saved, build, first, arg, res>>

\* Lines 56-77: the help process is run and gives nothing.
ProbeFails ==
  /\ Running /\ Top.pc = "entry"
  /\ command_key(Top.command_chain) \notin DOMAIN processed_commands
  /\ ~DepthExceeded(Top.current_depth, max_depth)
  /\ Captured[probe(current_command(Top)), rank].failed
  /\ probed' = Append(probed, current_command(Top))
  /\ Return(None)
  /\ UNCHANGED <<phase, max_depth, fixture, rank, processed_commands, saved, build, first, arg, res>>

\* Lines 56-126: the help process is run and its output parsed.
ProbeParses ==
  /\ Running /\ Top.pc = "entry"
  /\ command_key(Top.command_chain) \notin DOMAIN processed_commands
  /\ ~DepthExceeded(Top.current_depth, max_depth)
  /\ \E got \in {Captured[probe(current_command(Top)), rank]} :
       /\ ~got.failed
       /\ stack' = [stack EXCEPT ![Len(stack)] =
                      [@ EXCEPT !.command_structure = got.parsed.command_structure,
                                !.todo = got.parsed.todo,
                                !.pc = "loop"]]
  /\ probed' = Append(probed, current_command(Top))
  /\ UNCHANGED <<phase, max_depth, fixture, rank, processed_commands, ret, saved, build, first, arg, res>>

\* Lines 126-134: the recursive call for the next (subcmd, sub_desc).
Descend ==
  /\ Running /\ Top.pc = "loop" /\ Top.todo # <<>>
  /\ stack' = Append([stack EXCEPT ![Len(stack)].pc = "await"],
                     Frame(Append(Top.command_chain, Top.todo[1][1]),
                           ChildDepth(Top.current_depth)))
  /\ UNCHANGED <<phase, max_depth, fixture, rank, processed_commands, ret, probed, saved, build, first, arg, res>>

\* Lines 135-138: the call gave a node. The node is the object the memo
\* table holds, so the description written into it shows there too.
AttachNode ==
  /\ Running /\ Top.pc = "await" /\ ~ret.is_none
  /\ LET subcmd == Top.todo[1][1]
         sub_structure == Backfill(ret.value, sub_desc_clean(Top.todo[1][2]))
     IN /\ stack' = [stack EXCEPT ![Len(stack)] =
                       [@ EXCEPT !.command_structure.subcommands = Put(@, subcmd, sub_structure),
                                 !.todo = Tail(@),
                                 !.pc = "loop"]]
        /\ processed_commands' =
             [processed_commands EXCEPT
                ![command_key(Append(Top.command_chain, subcmd))] = sub_structure]
  /\ UNCHANGED <<phase, max_depth, fixture, rank, ret, probed, saved, build, first, arg, res>>

\* Lines 139-144: the call gave None.
AttachStub ==
  /\ Running /\ Top.pc = "await" /\ ret.is_none
  /\ stack' = [stack EXCEPT ![Len(stack)] =
                 [@ EXCEPT !.command_structure.subcommands =
                             Put(@, Top.todo[1][1], Stub(sub_desc_clean(Top.todo[1][2]))),
                           !.todo = Tail(@),
                           !.pc = "loop"]]
  /\ UNCHANGED <<phase, max_depth, fixture, rank, processed_commands, ret, probed, saved, build, first, arg, res>>

\* Lines 146-147: memoize and return.
Finish ==
  /\ Running /\ Top.pc = "loop" /\ Top.todo = <<>>
  /\ processed_commands' =
       Put(processed_commands, command_key(Top.command_chain), Top.command_structure)
  /\ Return(Some(Top.command_structure))
  /\ UNCHANGED <<phase, max_depth, fixture, rank, probed, saved, build, first, arg, res>>

\* Lines 243-253: main saves the tree, or reports the failure.
MainDone ==
  /\ phase = "run" /\ stack = <<>>
  /\ phase' = "done"
  /\ saved' = Truthy(ret)
  /\ UNCHANGED <<max_depth, fixture, rank, stack, processed_commands, ret, probed, build, first, arg, res>>

\* The largest max_depth tried.
MaxDepthBound == 2

Init ==
  /\ phase = "start"
  /\ max_depth \in 0..MaxDepthBound
  /\ fixture \in Fixtures
  /\ rank = AsPrinted
  /\ stack = <<>>
  /\ processed_commands = EmptyDict
  /\ ret = None
  /\ probed = <<>>
  /\ saved = FALSE
  /\ build = 1
  /\ first = [ret |-> None, probed |-> <<>>]
  /\ arg = <<>>
  /\ res = <<>>

Next ==
  \/ Main
  \/ ReturnCached
  \/ DepthCutoff
  \/ ProbeFails
  \/ ProbeParses
  \/ Descend
  \/ AttachNode
  \/ AttachStub
  \/ Finish
  \/ MainDone

Spec == Init /\ [][Next]_vars

\* The recursion is sequential and nothing cancels a build: each step that
\* can be taken is taken.
FairSpec == Spec /\ WF_vars(Next)

\* ------------------------------------------------------------------------
\* The same tool built twice
\* ------------------------------------------------------------------------

\* main is run again on the same tool, which may now print the lines of its
\* listings in another order; processed_commands starts empty (line 35).
Rebuild ==
  /\ phase = "done" /\ build = 1
  /\ first' = [ret |-> ret, probed |-> probed]
  /\ build' = 2
  /\ rank' \in LineOrders
  /\ phase' = "start"
  /\ stack' = <<>>
  /\ processed_commands' = EmptyDict
  /\ ret' = None
  /\ probed' = <<>>
  /\ saved' = FALSE
  /\ UNCHANGED <<max_depth, fixture, arg, res>>

NextTwice == Next \/ Rebuild

SpecTwice == Init /\ [][NextTwice]_vars

\* ------------------------------------------------------------------------
\* The description rule applied alone
\* ------------------------------------------------------------------------

\* The longest description text tried.
MaxAngleLen == 5

AngleChars == {"<", ">", "n", "\n"}

AngleTexts == UNION {[1..n -> AngleChars] : n \in 1..MaxAngleLen}

\* The state outside the build, at rest.
Idle ==
  /\ max_depth = 0
  /\ fixture = [c \in Commands |-> 1]
  /\ rank = AsPrinted
  /\ stack = <<>>
  /\ processed_commands = EmptyDict
  /\ ret = None
  /\ probed = <<>>
  /\ saved = FALSE
  /\ build = 1
  /\ first = [ret |-> None, probed |-> <<>>]

InitAngle ==
  /\ phase = "text"
  /\ arg \in AngleTexts
  /\ res = <<>>
  /\ Idle

\* Lines 79-83 on a help text whose description is arg.
DescribeText ==
  /\ phase = "text"
  /\ phase' = "described"
  /\ res' = ExtractDescription(arg \o <<"\n">> \o UsageOnly)
  /\ UNCHANGED <<max_depth, fixture, rank, stack, processed_commands, ret, probed, saved,
                 build, first, arg>>

NextAngle == DescribeText

SpecAngle == InitAngle /\ [][NextAngle]_vars

\* ------------------------------------------------------------------------
\* The flags rule applied alone
\* ------------------------------------------------------------------------

\* The lines a flags block is made of.
\*   '  -v\n'
FlagBare ==
  << " ", " ", "-", "v", "\n" >>

\*   '  -t \n'
FlagTrailing ==
  << " ", " ", "-", "t", " ", "\n" >>

\*   '  -q   quiet\n'
FlagQuiet ==
  << " ", " ", "-", "q", " ", " ", " ", "q", "u", "i", "e", "t", "\n" >>

\*   '  -h, --help   help for <cmd>\n'
FlagHelp ==
  << " ", " ", "-", "h", ",", " ", "-", "-", "h", "e", "l", "p", " ", " ", " ", "h", "e", "l",
     "p", " ", "f", "o", "r", " ", "<", "c", "m", "d", ">", "\n" >>

\*   '      --config string   cfg\n'
FlagConfig ==
  << " ", " ", " ", " ", " ", " ", "-", "-", "c", "o", "n", "f", "i", "g", " ", "s", "t", "r",
     "i", "n", "g", " ", " ", " ", "c", "f", "g", "\n" >>

FlagLines == {FlagBare, FlagTrailing, FlagQuiet, FlagHelp, FlagConfig}

\* The most lines a block holds.
MaxFlagLines == 2

FlagBlocks == UNION {[1..n -> FlagLines] : n \in 0..MaxFlagLines}

\* A help text with a Flags: block of the lines local and a Global Flags:
\* block of the lines global, a blank line between them or none.
FlagsHelp(a) ==
  UsageOnly \o Join(<<<<"F", "l", "a", "g", "s", ":", "\n">>>> \o a.local, <<>>)
    \o (IF a.gap THEN <<"\n">> ELSE <<>>)
    \o Join(<<<<"G", "l", "o", "b", "a", "l", " ", "F", "l", "a", "g", "s", ":", "\n">>>>
              \o a.global, <<>>)

InitFlags ==
  /\ phase = "text"
  /\ arg \in [local : FlagBlocks, global : FlagBlocks, gap : BOOLEAN]
  /\ res = <<>>
  /\ Idle

\* Lines 85-114 on the help text of arg.
ScanFlags ==
  /\ phase = "text"
  /\ phase' = "scanned"
  /\ res' = ExtractFlags(FlagsHelp(arg))
  /\ UNCHANGED <<max_depth, fixture, rank, stack, processed_commands, ret, probed, saved,
                 build, first, arg>>

NextFlags == ScanFlags

SpecFlags == InitFlags /\ [][NextFlags]_vars

\* ------------------------------------------------------------------------
\* What the properties speak of
\* ------------------------------------------------------------------------

\* The command chains of a tree, the root's being <<>>.
RECURSIVE ChainsOf(_)
ChainsOf(node) ==
  {<<>>} \cup
    UNION {{<<n>> \o c : c \in ChainsOf(node.subcommands[n])} : n \in DOMAIN node.subcommands}

RECURSIVE NodeAt(_, _)
NodeAt(node, chain) ==
  IF chain = <<>> THEN node ELSE NodeAt(node.subcommands[chain[1]], Tail(chain))

\* The number of levels below a node.
RECURSIVE Height(_)
Height(node) ==
  IF DOMAIN node.subcommands = {} THEN 0
  ELSE LET hs == {Height(node.subcommands[n]) : n \in DOMAIN node.subcommands}
       IN 1 + CHOOSE h \in hs : \A g \in hs : g <= h

\* The outcome the tool has for the command at a chain.
OutcomeAt(chain) == fixture[(<<cli_tool>> \o chain)[Len(chain) + 1]]

\* A probe that gives no output: it times out, cannot be launched, or
\* captures nothing but whitespace. The exit status plays no part.
Unavailable(i) ==
  \/ Outcomes[i].kind \in {"timeout", "error"}
  \/ \A k \in DOMAIN HelpText(Outcomes[i], rank) : IsSpace(HelpText(Outcomes[i], rank)[k])

\* The call for the command at a chain yields nothing.
YieldsNothing(chain) == Len(chain) > max_depth \/ Unavailable(OutcomeAt(chain))

\* The sorted (name, description) tuples of the listing of the command at a chain.
ListingAt(chain) == Captured[OutcomeAt(chain), rank].parsed.todo

Built == phase = "done" /\ ~ret.is_none

\* ------------------------------------------------------------------------
\* C1
\* ------------------------------------------------------------------------

\* C1: within one build the help process is run at most once for each
\* command path, whatever the probes do and whatever the listings hold.
C1_ProbedAtMostOnce ==
  \A i, j \in DOMAIN probed : probed[i] = probed[j] => i = j

\* ------------------------------------------------------------------------
\* C2
\* ------------------------------------------------------------------------

\* C2: for every max_depth >= 0 the build fails, with no tree at all, if and
\* only if the probe of the root command gives no output; a non-zero exit
\* status with output is no failure, and no failure below the root makes the
\* build fail.
C2_FailsIffRootUnavailable ==
  phase = "done" =>
    /\ saved <=> ~Unavailable(fixture[cli_tool])
    /\ ret.is_none <=> Unavailable(fixture[cli_tool])

\* A build that succeeds although the root exited with a non-zero status and
\* the probe of a subcommand failed.
C2_Witness ==
  /\ phase = "done" /\ saved
  /\ Outcomes[fixture[cli_tool]].status # 0
  /\ \E i \in DOMAIN probed : Len(probed[i]) > 1 /\ Unavailable(OutcomeAt(Tail(probed[i])))

\* ------------------------------------------------------------------------
\* C3
\* ------------------------------------------------------------------------

\* C3: no command deeper than max_depth is probed; every entry at depth
\* max_depth + 1 of the tree is a stub, with no flags and no subcommands; and
\* the root holds one entry for each name of its own listing, also with
\* max_depth = 0.
C3_DepthCutoff ==
  /\ \A i \in DOMAIN probed : Len(probed[i]) - 1 <= max_depth
  /\ Built =>
       /\ \A c \in ChainsOf(ret.value) :
            Len(c) = max_depth + 1 =>
              /\ NodeAt(ret.value, c).flags = <<>>
              /\ DOMAIN NodeAt(ret.value, c).subcommands = {}
       /\ DOMAIN ret.value.subcommands =
            {ListingAt(<<>>)[i][1] : i \in DOMAIN ListingAt(<<>>)}

\* A build with max_depth = 0 whose root lists a subcommand that has flags or
\* subcommands of its own to show.
C3_Witness ==
  /\ Built /\ max_depth = 0
  /\ \E n \in DOMAIN ret.value.subcommands :
       /\ ~Unavailable(OutcomeAt(<<n>>))
       /\ ListingAt(<<n>>) # <<>>

\* ------------------------------------------------------------------------
\* C7
\* ------------------------------------------------------------------------

\* The tool of the end-to-end scenario.
Scenario ==
  /\ HelpText(Outcomes[fixture[cli_tool]], rank) = SamplePre \o SampleLine \o SamplePost
  /\ HelpText(Outcomes[fixture[create]], rank) = UsageOnly
  /\ Outcomes[fixture[cli_tool]].kind = "exit"
  /\ Outcomes[fixture[create]].kind = "exit"

\* The node of "create" in the scenario.
ScenarioCreate ==
  [description |->
     << "C", "r", "e", "a", "t", "e", " ", "a", " ", "t", "h", "i", "n", "g" >>,
   flags |-> <<>>,
   subcommands |-> EmptyDict]

\* The description the listing gives a successfully probed child: its own
\* when it has one, else one the parent's listing has for its name.
ChildDescriptionAt(c) ==
  LET own == Captured[OutcomeAt(c), rank].parsed.command_structure.description
      parent == SubSeq(c, 1, Len(c) - 1)
      name == c[Len(c)]
  IN IF own # <<>> THEN {own}
     ELSE {sub_desc_clean(ListingAt(parent)[i][2]) :
             i \in {j \in DOMAIN ListingAt(parent) : ListingAt(parent)[j][1] = name}}

\* C7 as stated: in the scenario the root has the description
\* "A sample CLI.", the one flag "-h, --help" described "bool show help",
\* and the one subcommand "create" with the backfilled description
\* "Create a thing", no flags and no subcommands.
C7_ScenarioAsStated ==
  (Built /\ Scenario) =>
    /\ ret.value.description =
         << "A", " ", "s", "a", "m", "p", "l", "e", " ", "C", "L", "I", "." >>
    /\ ret.value.flags =
         <<[flag |->
              << "-", "h", ",", " ", "-", "-", "h", "e", "l", "p" >>,
            description |->
              << "b", "o", "o", "l", " ", "s", "h", "o", "w", " ", "h", "e", "l", "p" >>]>>
    /\ DOMAIN ret.value.subcommands = {create}
    /\ ret.value.subcommands[create] = ScenarioCreate

\* C7 as amended: the same, with the flag described "bool   show help", the
\* text after the flag names as printed; and in every build a successfully
\* probed child keeps its own description when it has one and gets a
\* description of the listing only when it has none.
C7_ScenarioAmended ==
  Built =>
    /\ Scenario =>
         /\ ret.value.description =
              << "A", " ", "s", "a", "m", "p", "l", "e", " ", "C", "L", "I", "." >>
         /\ ret.value.flags =
              <<[flag |->
                   << "-", "h", ",", " ", "-", "-", "h", "e", "l", "p" >>,
                 description |->
                   << "b", "o", "o", "l", " ", " ", " ", "s", "h", "o", "w", " ", "h", "e", "l", "p" >>]>>
         /\ DOMAIN ret.value.subcommands = {create}
         /\ ret.value.subcommands[create] = ScenarioCreate
    /\ \A c \in ChainsOf(ret.value) :
         (c # <<>> /\ ~YieldsNothing(c)) =>
           NodeAt(ret.value, c).description \in ChildDescriptionAt(c)

\* The scenario built with "create" probed, and so backfilled.
C7_Witness ==
  /\ Built /\ Scenario
  /\ <<cli_tool, create>> \in {probed[i] : i \in DOMAIN probed}
  /\ ret.value.subcommands[create].description # <<>>

\* ------------------------------------------------------------------------
\* C8
\* ------------------------------------------------------------------------

\* C8: under every node of a built tree two distinct subcommand names get
\* two different anchors.
C8_SiblingAnchorsDiffer ==
  Built =>
    \A c \in ChainsOf(ret.value) :
      \A m, n \in DOMAIN NodeAt(ret.value, c).subcommands :
        m # n => generate_anchor_id(cli_tool, Append(c, m))
                   # generate_anchor_id(cli_tool, Append(c, n))

\* ------------------------------------------------------------------------
\* C9
\* ------------------------------------------------------------------------

\* The description the listing of the parent gives last for a name.
LastListed(parent, name) ==
  LET at == {j \in DOMAIN ListingAt(parent) : ListingAt(parent)[j][1] = name}
  IN sub_desc_clean(ListingAt(parent)[CHOOSE j \in at : \A k \in at : k <= j][2])

\* C9: where the call for a listed subcommand yields nothing, the parent
\* holds one entry under that name, a stub with the description of the
\* listing and no flags or subcommands; the other names of the listing are
\* still walked (each within the depth limit is probed), and the parent is
\* memoized and is the node returned.
C9_StubWhereNothing ==
  Built =>
    \A c \in ChainsOf(ret.value) :
      ~YieldsNothing(c) =>
        /\ processed_commands[command_key(c)] = NodeAt(ret.value, c)
        /\ DOMAIN NodeAt(ret.value, c).subcommands =
             {ListingAt(c)[i][1] : i \in DOMAIN ListingAt(c)}
        /\ \A n \in DOMAIN NodeAt(ret.value, c).subcommands :
             /\ YieldsNothing(Append(c, n)) =>
                  NodeAt(ret.value, c).subcommands[n] =
                    [description |-> LastListed(c, n), flags |-> <<>>,
                     subcommands |-> EmptyDict]
             /\ Len(c) < max_depth =>
                  <<cli_tool>> \o Append(c, n) \in {probed[i] : i \in DOMAIN probed}

\* A build where, under one parent, the probe of one subcommand failed and a
\* sibling was built all the same.
C9_Witness ==
  /\ Built
  /\ \E m, n \in DOMAIN ret.value.subcommands :
       /\ Unavailable(OutcomeAt(<<m>>)) /\ max_depth >= 1
       /\ ~YieldsNothing(<<n>>)

\* ------------------------------------------------------------------------
\* C10
\* ------------------------------------------------------------------------

\* C10: every build ends, and the tree it returns has no node deeper than
\* max_depth + 1 below the root, also when every help text lists further
\* subcommands.
C10_Terminates ==
  /\ <>(phase = "done")
  /\ [](Built => Height(ret.value) <= max_depth + 1)

\* A finished build of a tool whose "create" lists itself at every level,
\* with a tree of max_depth + 1 levels.
C10_Witness ==
  /\ Built
  /\ \E i \in DOMAIN ListingAt(<<create>>) : ListingAt(<<create>>)[i][1] = create
  /\ Height(ret.value) = max_depth + 1

\* ------------------------------------------------------------------------
\* C4
\* ------------------------------------------------------------------------

\* C4: a second build of the same tool returns the same tree and probes the
\* same commands in the same order as the first, also when the tool prints
\* the lines of its listings in another order the second time.
C4_RebuildAgrees ==
  (build = 2 /\ phase = "done") => (ret = first.ret /\ probed = first.probed)

\* ------------------------------------------------------------------------
\* C5
\* ------------------------------------------------------------------------

\* The flag of one line: the pattern of lines 92 and 102 on the line alone,
\* where no whitespace runs into another line (a line that is a flag name
\* and nothing else is a flag with an empty description).
FlagOfLine(line) == FindFlags(line, 1)

\* The flags of the lines of a block, line by line, in source order.
RECURSIVE FlagsOfLines(_)
FlagsOfLines(lines) ==
  IF lines = <<>> THEN <<>> ELSE FlagOfLine(lines[1]) \o FlagsOfLines(Tail(lines))

\* C5: the flags of a help text with a Flags: block and then a Global Flags:
\* block are the flag lines of the local block in source order and then
\* those of the global block: none lost, duplicated, reordered or absorbed.
C5_LocalThenGlobal ==
  phase = "scanned" =>
    LET want == FlagsOfLines(arg.local) \o FlagsOfLines(arg.global)
    IN res = [i \in DOMAIN want |->
                [flag |-> strip(want[i][1]),
                 description |-> replace_angle_brackets(strip(want[i][2]))]]

\* ------------------------------------------------------------------------
\* C6
\* ------------------------------------------------------------------------

\* The placeholders of a text: the (i, j) with "<" at i, ">" at j and no
\* angle bracket between them.
Placeholders(d) ==
  {p \in (DOMAIN d) \X (DOMAIN d) :
     /\ p[1] < p[2] /\ d[p[1]] = "<" /\ d[p[2]] = ">"
     /\ \A k \in (p[1] + 1)..(p[2] - 1) : d[k] \notin {"<", ">"}}

\* The text t holds the text w.
Holds(t, w) == \E i \in 1..(Len(t) + 1) : HasPrefixAt(t, i, w) \/ w = <<>>

\* C6: the stored description of a text that holds a placeholder <name>
\* holds the name between backquotes and no angle bracket at all.
C6_NoAngleBrackets ==
  phase = "described" =>
    LET d == strip(arg)
    IN Placeholders(d) # {} =>
         /\ \A k \in DOMAIN res : res[k] \notin {"<", ">"}
         /\ \A p \in Placeholders(d) :
              Holds(res, <<Backtick>> \o SubSeq(d, p[1] + 1, p[2] - 1) \o <<Backtick>>)

====
